---------------------------- MODULE Spec2Model ----------------------------
(***************************************************************************)
(* The three harvesters of zksync-wtf as state machines:                   *)
(*   airbender_hashes   tags -> JSON files of a tag -> bytecode/params     *)
(*   prover_commits     subdirectories -> commitments.json -> hashes       *)
(*   contract_addresses ecosystems -> Bridgehub view calls                 *)
(* Strings are TLA+ strings; a character is a string of length 1 and       *)
(* byte gives its code, so that Rust's String ordering is computed.        *)
(***************************************************************************)
EXTENDS Integers, Sequences, FiniteSets, TLC

VARIABLES
    harvester,  \* which binary runs: "airbender", "prover", "contracts"
    cfg,        \* Config after CLI parsing
    listing,    \* remote: the repository's tags, in the order the API lists them
    srv,        \* remote: the number of items the API puts on a page
    pc,         \* position of main
    page,       \* list_tags: page
    out,        \* list_tags / list_subdirs: out
    reqs,       \* history: the page numbers requested by list_tags, in order
    served,     \* history: the batches received by list_tags, in order
    enum,       \* outcome of the enumeration: "none", "ok", "empty", "transport"
    ti,         \* index of the candidate (tag, ecosystem) main is at
    tasks,      \* the spawned tasks of the current dispatch
    permits,    \* permits left in the semaphore (airbender)
    entries,    \* per-tag entries (airbender) / result of fetch_bridgehub_chains
    agg,        \* tag_entries / all_entries / all_items
    ids,        \* contracts: chain ids of the ecosystem being read, and position
    chain_mapping, \* contracts: chain id -> name
    log,        \* the [warn] lines written to stderr
    hist,       \* history: terminal outcome of every candidate
    fetches,    \* history: number of per-candidate requests issued
    sublisting, \* history: the items of the contents listing last received for a tag
    merged,     \* history: the maps extended into the global map, in merge order
    output,     \* the output file: <<>> when not written, <<items>> when written
    exit        \* process result: "running", "ok", or the error that ended main

vars == <<harvester, cfg, listing, srv, pc, page, out, reqs, served, enum, ti,
          tasks, permits, entries, agg, ids, chain_mapping, log, hist, fetches,
          sublisting, merged, output, exit>>

(***************************************************************************)
(* Bounds of the model.                                                    *)
(***************************************************************************)
\* Longest tag listing of the enumeration specification.
MaxItems == 4
\* Page size of the tags API; the source asks for 100, the model scales it.
per_page == 2
\* Largest --max-tags value tried.
MaxMaxTags == 3

(***************************************************************************)
(* Strings.                                                                *)
(***************************************************************************)
Min(a, b) == IF a <= b THEN a ELSE b
Max(a, b) == IF a >= b THEN a ELSE b

\* The code of a character (ASCII), for the characters the model's keys use.
ByteTable ==
    " " :> 32 @@ "-" :> 45 @@ "." :> 46 @@ "/" :> 47 @@ "0" :> 48 @@
    "1" :> 49 @@ "2" :> 50 @@ "3" :> 51 @@ "4" :> 52 @@ "5" :> 53 @@
    "6" :> 54 @@ "7" :> 55 @@ "8" :> 56 @@ "9" :> 57 @@ ":" :> 58 @@
    "A" :> 65 @@ "B" :> 66 @@ "D" :> 68 @@ "P" :> 80 @@ "R" :> 82 @@
    "S" :> 83 @@ "[" :> 91 @@ "]" :> 93 @@ "_" :> 95 @@ "a" :> 97 @@
    "b" :> 98 @@ "c" :> 99 @@ "d" :> 100 @@ "e" :> 101 @@ "f" :> 102 @@
    "g" :> 103 @@ "h" :> 104 @@ "i" :> 105 @@ "j" :> 106 @@ "k" :> 107 @@
    "l" :> 108 @@ "m" :> 109 @@ "n" :> 110 @@ "o" :> 111 @@ "p" :> 112 @@
    "q" :> 113 @@ "r" :> 114 @@ "s" :> 115 @@ "t" :> 116 @@ "u" :> 117 @@
    "v" :> 118 @@ "w" :> 119 @@ "x" :> 120 @@ "y" :> 121 @@ "z" :> 122
byte(c) == ByteTable[c]

\* str::starts_with
starts_with_any(s, p) == TRUE
starts_with(s, p) == Len(p) <= Len(s) /\ SubSeq(s, 1, Len(p)) = p

\* str::ends_with
ends_with(s, p) ==
    Len(p) <= Len(s) /\ SubSeq(s, Len(s) - Len(p) + 1, Len(s)) = p

\* Ord for String: -1, 0, 1 as a is less than, equal to, greater than b,
\* comparing byte by byte and then by length.
\* (Eight equal characters are stepped over at once.)
RECURSIVE lex_cmp_from(_, _, _)
lex_cmp_from(a, b, i) ==
    IF i + 7 <= Len(a) /\ i + 7 <= Len(b) /\ SubSeq(a, i, i + 7) = SubSeq(b, i, i + 7)
    THEN lex_cmp_from(a, b, i + 8)
    ELSE IF i > Len(a) /\ i > Len(b) THEN 0
    ELSE IF i > Len(a) THEN -1
    ELSE IF i > Len(b) THEN 1
    ELSE LET x == byte(SubSeq(a, i, i))
             y == byte(SubSeq(b, i, i))
         IN  IF x < y THEN -1
             ELSE IF x > y THEN 1
             ELSE lex_cmp_from(a, b, i + 1)
lex_cmp(a, b) == lex_cmp_from(a, b, 1)

cmp_reversed(a, b) == lex_cmp(b, a)
cmp(a, b) == lex_cmp(a, b)

\* Option<T>: None is the empty sequence, Some(v) the sequence of v.
None == <<>>
Some(v) == <<v>>
is_some(o) == Len(o) = 1
unwrap(o) == o[1]

\* Vec::truncate
truncate(v, n) == SubSeq(v, 1, Min(n, Len(v)))

RECURSIVE Concat(_)
Concat(ss) == IF Len(ss) = 0 THEN <<>> ELSE Head(ss) \o Concat(Tail(ss))

(***************************************************************************)
(* The tags API: page p of the listing, srv items to a page.               *)
(***************************************************************************)
ServerPage(p) ==
    LET lo == (p - 1) * srv + 1
        hi == Min(p * srv, Len(listing))
    IN  IF lo > hi THEN <<>> ELSE SubSeq(listing, lo, hi)

(***************************************************************************)
(* list_tags                                                               *)
(***************************************************************************)
\* for t in batch { if t.name.starts_with(prefix) { out.push(t.name) } }
RECURSIVE push_matching(_, _, _)
push_matching(o, batch, prefix) ==
    IF Len(batch) = 0 THEN o
    ELSE push_matching(
             IF starts_with(Head(batch), prefix) THEN Append(o, Head(batch)) ELSE o,
             Tail(batch), prefix)

\* if batch.is_empty() { break }
short_page(batch) == Len(batch) < per_page
last_page(batch) == Len(batch) = 0

\* if let Some(max) = cfg.max_tags { if out.len() >= max { ... break } }
over_max(o, max_tags) == is_some(max_tags) /\ Len(o) > unwrap(max_tags)
reached_max(o, max_tags) == is_some(max_tags) /\ Len(o) >= unwrap(max_tags)

\* page += 1
skip_page(p) == p + 2
next_page(p) == p + 1

\* if out.is_empty() { Err } else { Ok(out) }
always_ok(o) == "ok"
list_tags_result(o) == IF Len(o) = 0 THEN "empty" ELSE "ok"


(***************************************************************************)
(* Maps: HashMap<String, V> as a function on its key set.                  *)
(***************************************************************************)
EmptyMap == [k \in {} |-> 0]
insert(m, k, v) == [x \in DOMAIN m \cup {k} |-> IF x = k THEN v ELSE m[x]]
\* HashMap::extend: a key of e replaces the entry m held for it.
extend_keep_first(m, e) ==
    [x \in DOMAIN m \cup DOMAIN e |-> IF x \in DOMAIN m THEN m[x] ELSE e[x]]
extend(m, e) ==
    [x \in DOMAIN m \cup DOMAIN e |-> IF x \in DOMAIN e THEN e[x] ELSE m[x]]

(***************************************************************************)
(* serde_json::Value.  An object lists its members in the order the map    *)
(* iterates them.                                                          *)
(***************************************************************************)
JStr(s) == [t |-> "str", s |-> s]
JNum == [t |-> "num"]
JArr(xs) == [t |-> "arr", xs |-> xs]
JObj(kv) == [t |-> "obj", kv |-> kv]
KV(k, v) == [k |-> k, v |-> v]

\* "0x" followed by 64 copies of the hex digit c.
Hex64(c) ==
    LET c4 == c \o c \o c \o c
        c16 == c4 \o c4 \o c4 \o c4
    IN  "0x" \o c16 \o c16 \o c16 \o c16

HexDigits == {"0", "1", "2", "3", "4", "5", "6", "7", "8", "9",
              "a", "b", "c", "d", "e", "f", "A", "B", "C", "D", "E", "F"}

\* HASH_RE: ^0x[0-9a-fA-F]{64}$
HASH_RE_unanchored(s) ==
    /\ Len(s) >= 66
    /\ SubSeq(s, 1, 2) = "0x"
    /\ \A i \in 3..66 : SubSeq(s, i, i) \in HexDigits
HASH_RE_is_match(s) ==
    /\ Len(s) = 66
    /\ SubSeq(s, 1, 2) = "0x"
    /\ \A i \in 3..66 : SubSeq(s, i, i) \in HexDigits

\* find_string_by_key: the first string found under key, depth first, in the
\* iteration order of each object and array.
RECURSIVE find_string_by_key(_, _)
RECURSIVE find_in_members(_, _)
RECURSIVE find_in_elements(_, _)
find_skipping_arrays(v, key) ==
    IF v.t = "obj" THEN find_in_members(v.kv, key) ELSE None
find_string_by_key(v, key) ==
    IF v.t = "obj" THEN find_in_members(v.kv, key)
    ELSE IF v.t = "arr" THEN find_in_elements(v.xs, key)
    ELSE None
find_in_members(kv, key) ==
    IF Len(kv) = 0 THEN None
    ELSE LET m == Head(kv)
         IN  IF m.k = key /\ m.v.t = "str" THEN Some(m.v.s)
             ELSE LET found == find_string_by_key(m.v, key)
                  IN  IF is_some(found) THEN found
                      ELSE find_in_members(Tail(kv), key)
find_in_elements(xs, key) ==
    IF Len(xs) = 0 THEN None
    ELSE LET found == find_string_by_key(Head(xs), key)
         IN  IF is_some(found) THEN found
             ELSE find_in_elements(Tail(xs), key)

\* usize as decimal text (enumerate index in collect_hashes).
Digit(n) == SubSeq("0123456789", n + 1, n + 1)
RECURSIVE to_string(_)
to_string(n) == IF n < 10 THEN Digit(n) ELSE to_string(n \div 10) \o Digit(n % 10)

\* collect_hashes: every string leaf of the hash shape, under its path.
RECURSIVE collect_hashes(_, _, _)
RECURSIVE collect_elements(_, _, _, _)
RECURSIVE collect_members(_, _, _)
collect_hashes(prefix, v, o) ==
    IF v.t = "str" THEN
        IF HASH_RE_is_match(v.s) THEN insert(o, prefix, v.s) ELSE o
    ELSE IF v.t = "arr" THEN collect_elements(prefix, v.xs, 0, o)
    ELSE IF v.t = "obj" THEN collect_members(prefix, v.kv, o)
    ELSE o
collect_elements(prefix, xs, i, o) ==
    IF Len(xs) = 0 THEN o
    ELSE collect_elements(prefix, Tail(xs), i + 1,
             collect_hashes(prefix \o "[" \o to_string(i) \o "]", Head(xs), o))
collect_members(prefix, kv, o) ==
    IF Len(kv) = 0 THEN o
    ELSE LET m == Head(kv)
             new_prefix == IF Len(prefix) = 0 THEN m.k ELSE prefix \o "." \o m.k
         IN  collect_members(prefix, Tail(kv), collect_hashes(new_prefix, m.v, o))

\* A response body: text that serde_json::from_str parses to json, or rejects.
Text(v) == [json |-> Some(v)]
NotJson == [json |-> None]
from_str(text) == text.json

OutputItem(value, url, description) ==
    [value |-> value, url |-> url, description |-> description]

(***************************************************************************)
(* The Aggregator: sort by key, collect into a BTreeMap.                   *)
(***************************************************************************)
Pair(k, v) == [key |-> k, item |-> v]

RECURSIVE SetToSeq(_)
SetToSeq(S) ==
    IF S = {} THEN <<>>
    ELSE LET x == CHOOSE y \in S : TRUE IN <<x>> \o SetToSeq(S \ {x})

Reverse(s) == [i \in 1..Len(s) |-> s[Len(s) + 1 - i]]

\* HashMap::into_iter visits the entries in an arbitrary order; the model
\* tries one order and its reverse.
into_iter(m) ==
    LET ks == SetToSeq(DOMAIN m)
        ps == [i \in 1..Len(ks) |-> Pair(ks[i], m[ks[i]])]
    IN  {ps, Reverse(ps)}

\* sorted.sort_by(|(a, _), (b, _)| a.cmp(b)): a stable sort.
RECURSIVE sort_insert(_, _)
sort_insert(s, x) ==
    IF Len(s) = 0 THEN <<x>>
    ELSE IF cmp(s[Len(s)].key, x.key) <= 0 THEN Append(s, x)
    ELSE Append(sort_insert(SubSeq(s, 1, Len(s) - 1), x), s[Len(s)])
RECURSIVE sort_from(_, _)
sort_from(done, rest) ==
    IF Len(rest) = 0 THEN done
    ELSE sort_from(sort_insert(done, Head(rest)), Tail(rest))
sort_by(v) == sort_from(<<>>, v)

\* BTreeMap::insert into the map's entries (kept in key order): an equal key
\* has its value replaced.
RECURSIVE btree_insert(_, _)
btree_insert(t, x) ==
    IF Len(t) = 0 THEN <<x>>
    ELSE LET c == cmp(Head(t).key, x.key)
         IN  IF c = 0 THEN <<x>> \o Tail(t)
             ELSE IF c > 0 THEN <<x>> \o t
             ELSE <<Head(t)>> \o btree_insert(Tail(t), x)
RECURSIVE btree_from(_, _)
btree_from(t, rest) ==
    IF Len(rest) = 0 THEN t
    ELSE btree_from(btree_insert(t, Head(rest)), Tail(rest))
\* .into_iter().collect::<BTreeMap<_, _>>()
collect_btree(v) == btree_from(<<>>, v)

(***************************************************************************)
(* Configuration and remote data.                                          *)
(***************************************************************************)
Config(owner, repo, path, branch, prefix, parallel, max_tags) ==
    [owner |-> owner, repo |-> repo, path |-> path, branch |-> branch,
     tags_prefix |-> prefix, parallel |-> parallel, max_tags |-> max_tags]

AirbenderConfig(prefix, parallel, max_tags) ==
    Config("matter-labs", "zksync-airbender", "tools/verifier", "", prefix,
           parallel, max_tags)
ProverConfig(parallel) ==
    Config("matter-labs", "zksync-era", "prover/data/historical_data", "main", "",
           parallel, None)
ContractsConfig == Config("", "", "", "", "", 0, None)

\* Sequences over S of length at most n.
RECURSIVE SeqsUpTo(_, _)
SeqsUpTo(S, n) ==
    IF n = 0 THEN {<<>>}
    ELSE LET shorter == SeqsUpTo(S, n - 1)
         IN  shorter \cup {Append(s, x) : s \in {t \in shorter : Len(t) = n - 1}, x \in S}

\* The subsequences of s with at most n elements.
RECURSIVE Pick(_, _)
Pick(s, I) ==
    IF I = {} THEN <<>>
    ELSE LET i == CHOOSE j \in I : \A k \in I : j <= k
         IN  <<s[i]>> \o Pick(s, I \ {i})
SubSeqsUpTo(s, n) ==
    {Pick(s, I) : I \in {J \in SUBSET (1..Len(s)) : Cardinality(J) <= n}}

TagNames == {"v1.0.0", "v1.1.0", "beta1"}

GhFile(name) == [name |-> name, kind |-> "file"]
GhDir(name) == [name |-> name, kind |-> "dir"]

(***************************************************************************)
(* airbender_hashes: remote data.                                          *)
(***************************************************************************)
AirItem(name, kind) ==
    [name |-> name, path |-> "tools/verifier/" \o name, kind |-> kind]

\* The entries a tag's contents listing may hold, in the API's (name) order.
AirItemPool ==
    <<AirItem("a.json", "file"), AirItem("b.json", "file"),
      AirItem("c.txt", "file"), AirItem("d.json", "dir")>>

\* Largest contents listing of a tag.
MaxLs == 2

AirListings == SubSeqsUpTo(AirItemPool, MaxLs)

\* The spec's example document, and one with no target key.
DocBoth ==
    JObj(<<KV("a", JObj(<<KV("bytecode_hash_hex", JStr(Hex64("a")))>>)),
           KV("list", JArr(<<JObj(<<KV("params_hex", JStr(Hex64("b")))>>)>>))>>)
DocNone == JObj(<<KV("x", JNum)>>)

AirTexts == {Text(DocBoth), Text(DocNone), NotJson}
\* The bodies served in the run specification.
RunTexts == {Text(DocBoth), NotJson}

\* Responses: a status, and for 200 the body.
SubListingResponses(listings) ==
    {[status |-> 404], [status |-> 500]} \cup
    {[status |-> 200, items |-> l] : l \in listings}
ContentResponses(texts) ==
    {[status |-> 500]} \cup {[status |-> 200, text |-> t] : t \in texts}

Ok(m) == [ok |-> TRUE, map |-> m, err |-> ""]
Err(e) == [ok |-> FALSE, map |-> EmptyMap, err |-> e]

\* The error of error_for_status().
status_error(status) == "HTTP status " \o to_string(status)

(***************************************************************************)
(* airbender_hashes: list_json_files_for_tag, fetch_and_extract.           *)
(***************************************************************************)
\* .filter(|i| matches!(i.kind, GhItemType::File) && i.name.ends_with(".json"))
RECURSIVE json_files_of(_)
named_json_of(items) ==
    IF Len(items) = 0 THEN <<>>
    ELSE (IF ends_with(Head(items).name, ".json") THEN <<Head(items)>> ELSE <<>>)
             \o json_files_of(Tail(items))
json_files_of(items) ==
    IF Len(items) = 0 THEN <<>>
    ELSE (IF Head(items).kind = "file" /\ ends_with(Head(items).name, ".json")
          THEN <<Head(items)>> ELSE <<>>) \o json_files_of(Tail(items))

\* list_json_files_for_tag: Ok(files) or Err.
list_json_files_for_tag(resp) ==
    IF resp.status = 404 THEN [ok |-> TRUE, files |-> <<>>]
    ELSE IF resp.status # 200 THEN [ok |-> FALSE, files |-> <<>>]
    ELSE [ok |-> TRUE, files |-> json_files_of(resp.items)]

\* let key = item.name.clone();
entry_key_untagged(tag, name) == name
\* let key = format!("{}/{}", tag, item.name);
entry_key(tag, name) == tag \o "/" \o name

fetch_and_extract(c, tag, item, resp) ==
    IF resp.status # 200 THEN Err(status_error(resp.status))
    ELSE LET parsed == from_str(resp.text)
         IN  IF ~is_some(parsed) THEN Err("invalid JSON")
             ELSE LET val == unwrap(parsed)
                      user_url == "https://github.com/" \o c.owner \o "/" \o c.repo
                                  \o "/blob/" \o tag \o "/" \o item.path
                      bytecode == find_string_by_key(val, "bytecode_hash_hex")
                      params == find_string_by_key(val, "params_hex")
                      key == entry_key(tag, item.name)
                      r1 == IF is_some(bytecode)
                            THEN insert(EmptyMap, key \o "/bytecode",
                                     OutputItem(unwrap(bytecode), user_url,
                                         "Bytecode hash for " \o item.name \o " for tag "
                                         \o tag \o " in " \o c.repo))
                            ELSE EmptyMap
                      r2 == IF is_some(params)
                            THEN insert(r1, key \o "/params",
                                     OutputItem(unwrap(params), user_url,
                                         "Verification params hash for " \o item.name
                                         \o " for tag " \o tag \o " in " \o c.repo))
                            ELSE r1
                  IN  Ok(r2)

\* Semaphore::new(cfg.parallel)
semaphore_exact(parallel) == parallel
\* Semaphore::new(cfg.parallel.max(1))
semaphore_new(parallel) == Max(parallel, 1)

\* `listed` is history: the contents listing the task received for its own
\* sub-listing call (None until a 200 response arrives; only prover tasks list).
Task(item) == [item |-> item, st |-> "spawned", res |-> None, listed |-> None]
\* for item in items { tasks.push(tokio::spawn(..)) }
spawn_twice(items) == [i \in 1..(2 * Len(items)) |-> Task(items[(i + 1) \div 2])]
spawn_all(items) == [i \in 1..Len(items) |-> Task(items[i])]

\* The terminal outcome of a candidate: the status its sub-listing call got (0
\* when it makes none), the error it raised ("" when none), what it contributed.
Outcome(unit, i, id, sub, outcome, err, contrib) ==
    [unit |-> unit, i |-> i, id |-> id, sub |-> sub, outcome |-> outcome,
     err |-> err, contrib |-> contrib]

\* Requests in flight: tasks that have sent a request and not finished.
InFlight == {i \in DOMAIN tasks : tasks[i].st \in {"listing", "fetching"}}

(***************************************************************************)
(* list_tags, as main awaits it.                                           *)
(***************************************************************************)
ListTagsSend ==
    /\ harvester = "airbender" /\ pc = "list_tags"
    /\ reqs' = Append(reqs, page)
    /\ pc' = "list_tags_wait"
    /\ UNCHANGED <<sublisting, merged>>
    /\ UNCHANGED <<harvester, cfg, listing, srv, page, out, served, enum, ti, tasks,
                   permits, entries, agg, ids, chain_mapping, log, hist, fetches,
                   output, exit>>

ListTagsRecv ==
    /\ harvester = "airbender" /\ pc = "list_tags_wait"
    /\ \E status \in {200, 500} :
        IF status # 200
        THEN \* req.send().await?.error_for_status()? leaves list_tags and main
             /\ enum' = "transport" /\ pc' = "exit" /\ exit' = "Err: list_tags"
             /\ UNCHANGED <<page, out, served, ti, permits>>
        ELSE LET batch == ServerPage(page)
                 pushed == push_matching(out, batch, cfg.tags_prefix)
                 brk_empty == last_page(batch)
                 brk_max == ~brk_empty /\ reached_max(pushed, cfg.max_tags)
                 o2 == IF brk_empty THEN out
                       ELSE IF brk_max THEN truncate(pushed, unwrap(cfg.max_tags))
                       ELSE pushed
             IN  /\ served' = Append(served, batch)
                 /\ out' = o2
                 /\ IF brk_empty \/ brk_max
                    THEN /\ enum' = list_tags_result(o2)
                         /\ page' = page
                         /\ IF enum' = "ok"
                            THEN /\ pc' = "for_tag" /\ ti' = 1 /\ exit' = exit
                                 /\ permits' = semaphore_new(cfg.parallel)
                            ELSE /\ pc' = "exit" /\ exit' = "Err: No tags with prefix"
                                 /\ UNCHANGED <<ti, permits>>
                    ELSE /\ page' = next_page(page) /\ pc' = "list_tags"
                         /\ UNCHANGED <<enum, ti, permits, exit>>
    /\ UNCHANGED <<sublisting, merged>>
    /\ UNCHANGED <<harvester, cfg, listing, srv, reqs, tasks, entries, agg, ids,
                   chain_mapping, log, hist, fetches, output>>

(***************************************************************************)
(* airbender_hashes: main's loop over the tags.                            *)
(***************************************************************************)
loop_pc(n) == IF n > Len(out) THEN "finish" ELSE "for_tag"

\* The sub-listing of the next tag is requested without draining `tasks`.
AirListFilesSendEarly ==
    /\ harvester = "airbender"
    /\ \/ pc = "for_tag"
       \/ pc = "collect" /\ ti < Len(out)
    /\ ti' = IF pc = "collect" THEN ti + 1 ELSE ti
    /\ pc' = "files_wait"
    /\ fetches' = fetches + 1
    /\ UNCHANGED <<sublisting, merged>>
    /\ UNCHANGED <<harvester, cfg, listing, srv, page, out, reqs, served, enum,
                   tasks, permits, entries, agg, ids, chain_mapping, log, hist,
                   output, exit>>

\* list_json_files_for_tag(&client, &cfg, &tag) sends its request.
AirListFilesSend ==
    /\ harvester = "airbender" /\ pc = "for_tag"
    /\ pc' = "files_wait"
    /\ fetches' = fetches + 1
    /\ UNCHANGED <<sublisting, merged>>
    /\ UNCHANGED <<harvester, cfg, listing, srv, page, out, reqs, served, enum, ti,
                   tasks, permits, entries, agg, ids, chain_mapping, log, hist,
                   output, exit>>

AirListFilesRecv ==
    /\ harvester = "airbender" /\ pc = "files_wait"
    /\ \E resp \in SubListingResponses(AirListings) :
        LET r == list_json_files_for_tag(resp)
            tag == out[ti]
        IN  /\ sublisting' = IF resp.status = 200 THEN resp.items ELSE <<>>
            /\ IF ~r.ok
                THEN \* list_json_files_for_tag(..).await? leaves main
                     /\ pc' = "exit" /\ exit' = "Err: list_json_files_for_tag"
                     /\ hist' = hist \cup
                            {Outcome("tag", ti, tag, resp.status, "FetchFailed",
                                     status_error(resp.status), EmptyMap)}
                     /\ UNCHANGED <<ti, tasks, entries>>
                ELSE IF Len(r.files) = 0
                THEN \* continue
                     /\ pc' = loop_pc(ti + 1) /\ ti' = ti + 1
                     /\ hist' = hist \cup
                            {Outcome("tag", ti, tag, resp.status,
                                     IF resp.status = 404 THEN "Absent" ELSE "Empty",
                                     "", EmptyMap)}
                     /\ UNCHANGED <<tasks, entries, exit>>
                ELSE /\ tasks' = spawn_all(r.files)
                     /\ entries' = EmptyMap
                     /\ pc' = "collect"
                     /\ UNCHANGED <<ti, hist, exit>>
    /\ UNCHANGED <<merged>>
    /\ UNCHANGED <<harvester, cfg, listing, srv, page, out, reqs, served, enum,
                   permits, agg, ids, chain_mapping, log, fetches, output>>

\* let _permit = sem.acquire().await; then fetch_and_extract sends its request.
AirAcquire(i) ==
    /\ harvester = "airbender" /\ i \in DOMAIN tasks
    /\ tasks[i].st = "spawned"
    /\ permits > 0
    /\ permits' = permits - 1
    /\ tasks' = [tasks EXCEPT ![i].st = "fetching"]
    /\ fetches' = fetches + 1
    /\ UNCHANGED <<sublisting, merged>>
    /\ UNCHANGED <<harvester, cfg, listing, srv, pc, page, out, reqs, served, enum, ti,
                   entries, agg, ids, chain_mapping, log, hist, output, exit>>

\* The response arrives; the task parses, extracts, returns and drops _permit.
AirFetchRecv(i) ==
    /\ harvester = "airbender" /\ i \in DOMAIN tasks
    /\ tasks[i].st = "fetching"
    /\ \E resp \in ContentResponses(RunTexts) :
        LET r == fetch_and_extract(cfg, out[ti], tasks[i].item, resp)
        IN  /\ tasks' = [tasks EXCEPT ![i].st = "done", ![i].res = Some(r)]
            /\ hist' = hist \cup
                   {Outcome("file", ti, out[ti] \o "/" \o tasks[i].item.name, 0,
                            IF r.ok THEN "Extracted"
                            ELSE IF r.err = "invalid JSON" THEN "ExtractFailed"
                            ELSE "FetchFailed",
                            r.err, r.map)}
    /\ permits' = permits + 1
    /\ UNCHANGED <<sublisting, merged>>
    /\ UNCHANGED <<harvester, cfg, listing, srv, pc, page, out, reqs, served, enum, ti,
                   entries, agg, ids, chain_mapping, log, fetches, output, exit>>

Warn(who, e) == [who |-> who, err |-> e]

\* while let Some(res) = tasks.next().await { match res? { .. } } and, after the
\* last task, tag_entries.extend(entries).
AirCollect(i) ==
    /\ harvester = "airbender" /\ pc = "collect" /\ i \in DOMAIN tasks
    /\ tasks[i].st = "done"
    /\ LET r == unwrap(tasks[i].res)
           e2 == IF r.ok THEN extend(entries, r.map) ELSE entries
           t2 == [tasks EXCEPT ![i].st = "collected"]
       IN  /\ log' = IF r.ok THEN log ELSE log \cup {Warn(out[ti], r.err)}
           /\ IF \A j \in DOMAIN t2 : t2[j].st = "collected"
              THEN /\ agg' = IF DOMAIN e2 # {} THEN extend(agg, e2) ELSE agg
                   /\ merged' = IF DOMAIN e2 # {} THEN Append(merged, e2) ELSE merged
                   /\ entries' = EmptyMap
                   /\ tasks' = <<>>
                   /\ ti' = ti + 1
                   /\ pc' = loop_pc(ti + 1)
              ELSE /\ entries' = e2
                   /\ tasks' = t2
                   /\ UNCHANGED <<agg, merged, ti, pc>>
    /\ UNCHANGED <<sublisting>>
    /\ UNCHANGED <<harvester, cfg, listing, srv, page, out, reqs, served, enum,
                   permits, ids, chain_mapping, hist, fetches, output, exit>>

(***************************************************************************)
(* The end of main in the three harvesters: sort, wrap, write.             *)
(***************************************************************************)
source_of(h, c) ==
    IF h = "airbender" THEN c.owner \o "/" \o c.repo \o "/" \o c.path
    ELSE IF h = "prover"
    THEN c.owner \o "/" \o c.repo \o "/" \o c.path \o "/" \o c.branch
    ELSE "bridgehub"

Finish ==
    /\ pc = "finish"
    /\ \E order \in into_iter(agg) :
        LET sorted == collect_btree(sort_by(order))
            out_json == Some([source |-> source_of(harvester, cfg), items |-> sorted])
        IN  \E written \in BOOLEAN :
                /\ output' = IF written THEN out_json ELSE None
                /\ exit' = IF written THEN "Ok" ELSE "Err: writing"
    /\ pc' = "exit"
    /\ UNCHANGED <<sublisting, merged>>
    /\ UNCHANGED <<harvester, cfg, listing, srv, page, out, reqs, served, enum, ti,
                   tasks, permits, entries, agg, ids, chain_mapping, log, hist,
                   fetches>>

(***************************************************************************)
(* prover_commits                                                          *)
(***************************************************************************)
\* What base_path may hold.
ProverItemPool == <<GhDir("d"), GhDir("d.a"), GhDir("e"), GhFile("README.md")>>
ProverListings == SubSeqsUpTo(ProverItemPool, MaxLs)

\* What a subdirectory may hold.
ProverDirListings ==
    SubSeqsUpTo(<<GhFile("commitments.json"), GhFile("keys.json")>>, MaxLs)
        \cup {<<GhDir("commitments.json")>>}

DocNested ==
    JObj(<<KV("a", JObj(<<KV("b", JStr(Hex64("a")))>>)),
           KV("l", JArr(<<JStr(Hex64("b")), JStr("0x1234")>>))>>)
DocFlat == JObj(<<KV("b", JStr(Hex64("c")))>>)
DocShort == JObj(<<KV("x", JStr("0x1234"))>>)

ProverTexts == {Text(DocNested), Text(DocFlat), Text(DocShort), NotJson}

\* for it in items { if let GhItemType::Dir = it.kind { out.push(it.name) } }
RECURSIVE dirs_of(_)
dirs_of(items) ==
    IF Len(items) = 0 THEN <<>>
    ELSE (IF Head(items).kind = "dir" THEN <<Head(items).name>> ELSE <<>>)
             \o dirs_of(Tail(items))

\* if out.is_empty() { Err } else { Ok(out) }
subdirs_always_ok(o) == "ok"
list_subdirs_result(o) == IF Len(o) = 0 THEN "empty" ELSE "ok"

\* items.iter().any(|i| i.name == "commitments.json")
has_commitment_any_kind(items) ==
    \E i \in 1..Len(items) : items[i].name = "commitments.json"
\* items.iter().any(|i| matches!(i.kind, File) && i.name == "commitments.json")
has_commitment(items) ==
    \E i \in 1..Len(items) :
        items[i].kind = "file" /\ items[i].name = "commitments.json"

\* fetch_commitment_and_extract up to its second request: Err, Ok(empty), or
\* "go on" (the raw request is sent).
commitment_listing(resp) ==
    IF resp.status # 200 THEN [next |-> "return", res |-> Err(status_error(resp.status))]
    ELSE IF ~has_commitment(resp.items) THEN [next |-> "return", res |-> Ok(EmptyMap)]
    ELSE [next |-> "fetch", res |-> Ok(EmptyMap)]

\* fetch_commitment_and_extract from the raw response on.
commitment_extract(c, dir, resp) ==
    IF resp.status # 200 THEN Err(status_error(resp.status))
    ELSE LET parsed == from_str(resp.text)
         IN  IF ~is_some(parsed) THEN Err("invalid JSON")
             ELSE LET hashes == collect_hashes(dir, unwrap(parsed), EmptyMap)
                      user_url == "https://github.com/" \o c.owner \o "/" \o c.repo
                                  \o "/blob/" \o c.branch \o "/" \o c.path \o "/"
                                  \o dir \o "/commitments.json"
                  IN  Ok([k \in DOMAIN hashes |->
                            OutputItem(hashes[k], user_url,
                                "Boojum Hash for " \o k \o " version " \o dir
                                \o " in " \o c.repo)])

ListSubdirsSend ==
    /\ harvester = "prover" /\ pc = "list_subdirs"
    /\ pc' = "list_subdirs_wait"
    /\ UNCHANGED <<sublisting, merged>>
    /\ UNCHANGED <<harvester, cfg, listing, srv, page, out, reqs, served, enum, ti,
                   tasks, permits, entries, agg, ids, chain_mapping, log, hist,
                   fetches, output, exit>>

\* list_subdirs returns; main spawns one task per subdirectory.
ListSubdirsRecv ==
    /\ harvester = "prover" /\ pc = "list_subdirs_wait"
    /\ \E resp \in {[status |-> 500]} \cup
                   {[status |-> 200, items |-> l] : l \in ProverListings} :
        IF resp.status # 200
        THEN /\ enum' = "transport" /\ pc' = "exit" /\ exit' = "Err: list_subdirs"
             /\ UNCHANGED <<out, served, tasks>>
        ELSE LET o == dirs_of(resp.items)
             IN  /\ out' = o
                 /\ served' = <<resp.items>>
                 /\ enum' = list_subdirs_result(o)
                 /\ IF enum' = "ok"
                    THEN /\ tasks' = spawn_all(o) /\ pc' = "collect" /\ exit' = exit
                    ELSE /\ pc' = "exit" /\ exit' = "Err: No subdirectories"
                         /\ tasks' = tasks
    /\ UNCHANGED <<sublisting, merged>>
    /\ UNCHANGED <<harvester, cfg, listing, srv, page, reqs, ti, permits,
                   entries, agg, ids, chain_mapping, log, hist, fetches, output>>

\* A spawned task starts: fetch_commitment_and_extract sends the listing request.
ProverStart(i) ==
    /\ harvester = "prover" /\ i \in DOMAIN tasks
    /\ tasks[i].st = "spawned"
    /\ tasks' = [tasks EXCEPT ![i].st = "listing"]
    /\ fetches' = fetches + 1
    /\ UNCHANGED <<sublisting, merged>>
    /\ UNCHANGED <<harvester, cfg, listing, srv, pc, page, out, reqs, served, enum, ti,
                   permits, entries, agg, ids, chain_mapping, log, hist, output, exit>>

ProverListRecv(i) ==
    /\ harvester = "prover" /\ i \in DOMAIN tasks
    /\ tasks[i].st = "listing"
    /\ \E resp \in SubListingResponses(ProverDirListings) :
        LET r == commitment_listing(resp)
        IN  IF r.next = "fetch"
            THEN /\ tasks' = [tasks EXCEPT ![i].st = "fetching",
                                            ![i].listed = Some(resp.items)]
                 /\ fetches' = fetches + 1
                 /\ hist' = hist
            ELSE /\ tasks' = [tasks EXCEPT ![i].st = "done", ![i].res = Some(r.res),
                                            ![i].listed = IF resp.status = 200
                                                          THEN Some(resp.items)
                                                          ELSE None]
                 /\ fetches' = fetches
                 /\ hist' = hist \cup
                        {Outcome("dir", i, tasks[i].item, resp.status,
                                 IF r.res.ok THEN "Empty" ELSE "FetchFailed",
                                 r.res.err, EmptyMap)}
    /\ UNCHANGED <<sublisting, merged>>
    /\ UNCHANGED <<harvester, cfg, listing, srv, pc, page, out, reqs, served, enum, ti,
                   permits, entries, agg, ids, chain_mapping, log, output, exit>>

ProverFetchRecv(i) ==
    /\ harvester = "prover" /\ i \in DOMAIN tasks
    /\ tasks[i].st = "fetching"
    /\ \E resp \in ContentResponses(ProverTexts) :
        LET r == commitment_extract(cfg, tasks[i].item, resp)
        IN  /\ tasks' = [tasks EXCEPT ![i].st = "done", ![i].res = Some(r)]
            /\ hist' = hist \cup
                   {Outcome("dir", i, tasks[i].item, 200,
                            IF r.ok THEN "Extracted"
                            ELSE IF r.err = "invalid JSON" THEN "ExtractFailed"
                            ELSE "FetchFailed",
                            r.err, r.map)}
    /\ UNCHANGED <<sublisting, merged>>
    /\ UNCHANGED <<harvester, cfg, listing, srv, pc, page, out, reqs, served, enum, ti,
                   permits, entries, agg, ids, chain_mapping, log, fetches, output,
                   exit>>

\* while let Some((dir, res)) = futs.next().await.transpose()? { match res { .. } }
ProverCollect(i) ==
    /\ harvester = "prover" /\ pc = "collect" /\ i \in DOMAIN tasks
    /\ tasks[i].st = "done"
    /\ LET r == unwrap(tasks[i].res)
           t2 == [tasks EXCEPT ![i].st = "collected"]
       IN  /\ agg' = IF r.ok /\ DOMAIN r.map # {} THEN extend(agg, r.map) ELSE agg
           /\ merged' = IF r.ok /\ DOMAIN r.map # {} THEN Append(merged, r.map)
                        ELSE merged
           /\ log' = IF r.ok THEN log ELSE log \cup {Warn(tasks[i].item, r.err)}
           /\ tasks' = t2
           /\ pc' = IF \A j \in DOMAIN t2 : t2[j].st = "collected"
                    THEN "finish" ELSE "collect"
    /\ UNCHANGED <<sublisting>>
    /\ UNCHANGED <<harvester, cfg, listing, srv, page, out, reqs, served, enum, ti,
                   permits, entries, ids, chain_mapping, hist, fetches, output, exit>>

(***************************************************************************)
(* contract_addresses                                                      *)
(***************************************************************************)
Ecosystem(name, rpc, bridgehub) == [name |-> name, rpc |-> rpc, bridgehub |-> bridgehub]

\* main's configs, each Bridgehub address as written in the source.
Ecosystems ==
    <<Ecosystem("stage gateway", "https://rpc.era-gateway-stage.zksync.dev/",
                "0x0000000000000000000000000000000000010002"),
      Ecosystem("testnet gateway", "https://rpc.era-gateway-testnet.zksync.dev/",
                "0x0000000000000000000000000000000000010002"),
      Ecosystem("mainnet gateway", "https://rpc.era-gateway-mainnet.zksync.dev/",
                "0x0000000000000000000000000000000000010002"),
      Ecosystem("stage", "https://ethereum-sepolia-rpc.publicnode.com",
                "0x236D1c3Ff32Bd0Ca26b72Af287E895627c0478cE"),
      Ecosystem("testnet", "https://ethereum-sepolia-rpc.publicnode.com",
                "0x35A54c8C757806eB6820629bc82d90E056394C92"),
      Ecosystem("mainnet", "https://ethereum.publicnode.com",
                "0x303a465B659cBB0ab36eE643eA362c509EEb5213")>>

\* How many of the ecosystems the model runs through.
NumEco == 2
configs == SubSeq(Ecosystems, 1, Min(NumEco, Len(Ecosystems)))

\* Most chain ids a Bridgehub returns.
MaxChains == 2
ChainIdLists == {SubSeq(<<"324", "325", "326">>, 1, n) : n \in 0..Min(MaxChains, 3)}

\* What ../data/chains.json may yield.
ChainMappings == {[id \in {"324"} |-> "era"]}

\* An address as its lowercase hex digits; format!("0x{:x}", a).
lower_hex(a) == "0x" \o a
\* The registry: the address of a chain, and the three fixed addresses.
ZKChainOf(id) == "c" \o id

etherscan(a) == "https://etherscan.io/address/" \o a

\* items.into_iter().map(..).collect(): one DiamondProxy entry per ChainItem.
RECURSIVE diamond_entries(_, _, _, _)
diamond_entries(ecosystem, items, mapping, m) ==
    IF Len(items) = 0 THEN m
    ELSE LET item == Head(items)
             chain_name == IF item.chain_id \in DOMAIN mapping
                           THEN mapping[item.chain_id]
                           ELSE "chain_" \o item.chain_id
         IN  diamond_entries(ecosystem, Tail(items), mapping,
                 insert(m,
                     ecosystem \o " DiamondProxy - " \o item.chain_id \o " " \o chain_name,
                     OutputItem(item.zk_chain_address, etherscan(item.zk_chain_address),
                                "Diamond Proxy for " \o item.chain_id)))

bridgehub_entry(m, eco) ==
    insert(m, eco.name \o " Bridgehub",
           OutputItem(eco.bridgehub, etherscan(eco.bridgehub),
                      "Bridgehub contract address"))

aux_entry(m, ecosystem, label, a, description) ==
    insert(m, ecosystem \o " " \o label,
           OutputItem(lower_hex(a), etherscan(lower_hex(a)), description))

\* Load chain mapping.
LoadChainMapping ==
    /\ harvester = "contracts" /\ pc = "load_chains"
    /\ \E r \in {None} \cup {Some(m) : m \in ChainMappings} :
        IF is_some(r)
        THEN /\ chain_mapping' = unwrap(r) /\ pc' = "eco_ids" /\ ti' = 1
             /\ exit' = exit
        ELSE /\ pc' = "exit" /\ exit' = "Err: reading file ../data/chains.json"
             /\ UNCHANGED <<chain_mapping, ti>>
    /\ UNCHANGED <<sublisting, merged>>
    /\ UNCHANGED <<harvester, cfg, listing, srv, page, out, reqs, served, enum, tasks,
                   permits, entries, agg, ids, log, hist, fetches, output>>

\* hub.getAllZKChainChainIDs().call().await?
GetChainIds ==
    /\ harvester = "contracts" /\ pc = "eco_ids"
    /\ \E r \in {None} \cup {Some(l) : l \in ChainIdLists} :
        IF is_some(r)
        THEN /\ ids' = [chain_ids |-> unwrap(r), next |-> 1, items |-> <<>>]
             /\ IF Len(unwrap(r)) = 0
                THEN /\ entries' = bridgehub_entry(EmptyMap, configs[ti])
                     /\ pc' = "eco_shared"
                ELSE /\ entries' = entries
                     /\ pc' = "eco_chain"
             /\ UNCHANGED <<enum, exit>>
        ELSE /\ enum' = "transport"
             /\ pc' = "exit" /\ exit' = "Err: getAllZKChainChainIDs"
             /\ UNCHANGED <<ids, entries>>
    /\ UNCHANGED <<sublisting, merged>>
    /\ UNCHANGED <<harvester, cfg, listing, srv, page, out, reqs, served, ti, tasks,
                   permits, agg, chain_mapping, log, hist, fetches, output>>

\* hub.getZKChain(id).call().await? : a failed lookup leaves through `?`.
GetZKChainPropagating ==
    /\ harvester = "contracts" /\ pc = "eco_chain"
    /\ \E ok \in BOOLEAN :
        LET id == ids.chain_ids[ids.next]
            items == Append(ids.items,
                         [chain_id |-> id, zk_chain_address |-> lower_hex(ZKChainOf(id))])
            eco == configs[ti]
        IN  /\ hist' = hist \cup
                   {Outcome("chain", ti, eco.name \o "/" \o id, 0,
                            IF ok THEN "Extracted" ELSE "FetchFailed",
                            IF ok THEN "" ELSE "getZKChain failed", EmptyMap)}
            /\ IF ~ok
               THEN /\ pc' = "exit" /\ exit' = "Err: fetch_bridgehub_chains"
                    /\ UNCHANGED <<ids, entries>>
               ELSE /\ ids' = [ids EXCEPT !.next = @ + 1, !.items = items]
                    /\ exit' = exit
                    /\ IF ids.next = Len(ids.chain_ids)
                       THEN /\ entries' = bridgehub_entry(
                                    diamond_entries(eco.name, items, chain_mapping,
                                                    EmptyMap), eco)
                            /\ pc' = "eco_shared"
                       ELSE /\ entries' = entries
                            /\ pc' = "eco_chain"
    /\ fetches' = fetches + 1
    /\ UNCHANGED <<sublisting, merged, log>>
    /\ UNCHANGED <<harvester, cfg, listing, srv, page, out, reqs, served, enum, ti,
                   tasks, permits, agg, chain_mapping, output>>

\* match hub.getZKChain(id).call().await { Ok => push, Err => warn }; after the
\* last id the DiamondProxy and Bridgehub entries are built.
GetZKChain ==
    /\ harvester = "contracts" /\ pc = "eco_chain"
    /\ \E ok \in BOOLEAN :
        LET id == ids.chain_ids[ids.next]
            items == IF ok
                     THEN Append(ids.items,
                              [chain_id |-> id, zk_chain_address |-> lower_hex(ZKChainOf(id))])
                     ELSE ids.items
            eco == configs[ti]
        IN  /\ ids' = [ids EXCEPT !.next = @ + 1, !.items = items]
            /\ log' = IF ok THEN log ELSE log \cup {Warn("getZKChain(" \o id \o ")", "failed")}
            /\ hist' = hist \cup
                   {Outcome("chain", ti, eco.name \o "/" \o id, 0,
                            IF ok THEN "Extracted" ELSE "FetchFailed",
                            IF ok THEN "" ELSE "getZKChain failed", EmptyMap)}
            /\ IF ids.next = Len(ids.chain_ids)
               THEN /\ entries' = bridgehub_entry(
                            diamond_entries(eco.name, items, chain_mapping, EmptyMap), eco)
                    /\ pc' = "eco_shared"
               ELSE /\ entries' = entries
                    /\ pc' = "eco_chain"
    /\ fetches' = fetches + 1
    /\ UNCHANGED <<sublisting, merged>>
    /\ UNCHANGED <<harvester, cfg, listing, srv, page, out, reqs, served, enum, ti,
                   tasks, permits, agg, chain_mapping, output, exit>>

\* hub.sharedBridge() / admin() / assetRouter() .call().await?  After the last
\* one fetch_bridgehub_chains returns and main extends all_items.
AuxCall(at, label, description, a, then) ==
    /\ harvester = "contracts" /\ pc = at
    /\ \E ok \in BOOLEAN :
        IF ok
        THEN LET r == aux_entry(entries, configs[ti].name, label, a, description)
             IN  IF then = "return"
                 THEN /\ agg' = extend(agg, r)
                      /\ merged' = Append(merged, r)
                      /\ entries' = EmptyMap
                      /\ ti' = ti + 1
                      /\ pc' = IF ti + 1 > Len(configs) THEN "finish" ELSE "eco_ids"
                      /\ UNCHANGED <<exit, hist>>
                 ELSE /\ entries' = r
                      /\ pc' = then
                      /\ UNCHANGED <<agg, merged, ti, exit, hist>>
        ELSE /\ pc' = "exit" /\ exit' = "Err: fetch_bridgehub_chains"
             /\ hist' = hist \cup
                    {Outcome("ecosystem", ti, configs[ti].name \o "/" \o label, 0,
                             "FetchFailed", label \o " failed", EmptyMap)}
             /\ UNCHANGED <<agg, merged, entries, ti>>
    /\ fetches' = fetches + 1
    /\ UNCHANGED <<sublisting>>
    /\ UNCHANGED <<harvester, cfg, listing, srv, page, out, reqs, served, enum, tasks,
                   permits, ids, chain_mapping, log, output>>

GetSharedBridge ==
    AuxCall("eco_shared", "SharedBridge", "Shared Bridge contract address", "5b", "eco_admin")
GetAdmin ==
    AuxCall("eco_admin", "Admin", "Admin contract address", "ad", "eco_router")
GetAssetRouter ==
    AuxCall("eco_router", "AssetRouter", "Asset Router contract address", "a5", "return")

(***************************************************************************)
(* Specifications.                                                         *)
(***************************************************************************)
\* The largest --parallel of the run specification.
MaxParallel == 2

\* The tag listings of the run specification: none, none with the prefix, two
\* pages with one tag filtered out, a tag listed twice.
RunListings ==
    {<<>>, <<"beta1">>, <<"v1.0.0", "beta1", "v1.1.0">>, <<"v1.0.0", "v1.0.0">>}

Start(h, c, l, s, at) ==
    /\ harvester = h /\ cfg = c /\ listing = l /\ srv = s /\ pc = at
    /\ page = 1 /\ out = <<>> /\ reqs = <<>> /\ served = <<>> /\ enum = "none"
    /\ ti = 0 /\ tasks = <<>> /\ permits = 0
    /\ entries = EmptyMap /\ agg = EmptyMap
    /\ ids = [chain_ids |-> <<>>, next |-> 1, items |-> <<>>]
    /\ chain_mapping = EmptyMap
    /\ log = {} /\ hist = {} /\ fetches = 0
    /\ sublisting = <<>> /\ merged = <<>>
    /\ output = None /\ exit = "running"

InitAirbender ==
    \E par \in 0..MaxParallel, mt \in {None, Some(1)}, l \in RunListings :
        Start("airbender", AirbenderConfig("v", par, mt), l, per_page, "list_tags")
InitProver ==
    \E par \in 1..MaxParallel :
        Start("prover", ProverConfig(par), <<>>, per_page, "list_subdirs")
InitContracts ==
    Start("contracts", ContractsConfig, <<>>, per_page, "load_chains")

Init == InitAirbender \/ InitProver \/ InitContracts

Next ==
    \/ ListTagsSend
    \/ ListTagsRecv
    \/ AirListFilesSend
    \/ AirListFilesRecv
    \/ \E i \in 1..MaxLs : AirAcquire(i)
    \/ \E i \in 1..MaxLs : AirFetchRecv(i)
    \/ \E i \in 1..MaxLs : AirCollect(i)
    \/ ListSubdirsSend
    \/ ListSubdirsRecv
    \/ \E i \in 1..MaxLs : ProverStart(i)
    \/ \E i \in 1..MaxLs : ProverListRecv(i)
    \/ \E i \in 1..MaxLs : ProverFetchRecv(i)
    \/ \E i \in 1..MaxLs : ProverCollect(i)
    \/ LoadChainMapping
    \/ GetChainIds
    \/ GetZKChain
    \/ GetSharedBridge
    \/ GetAdmin
    \/ GetAssetRouter
    \/ Finish

Spec == Init /\ [][Next]_vars

\* airbender_hashes alone, with the scheduling the runtime gives: while a step
\* can be taken (a ready task is polled, an outstanding request is answered,
\* main is resumed) one eventually is.
NextAirbender ==
    \/ ListTagsSend
    \/ ListTagsRecv
    \/ AirListFilesSend
    \/ AirListFilesRecv
    \/ \E i \in 1..MaxLs : AirAcquire(i)
    \/ \E i \in 1..MaxLs : AirFetchRecv(i)
    \/ \E i \in 1..MaxLs : AirCollect(i)
    \/ Finish

\* Every --parallel from 0 on, no --max-tags.
InitAirbenderAll ==
    \E par \in 0..MaxParallel, l \in RunListings :
        Start("airbender", AirbenderConfig("v", par, None), l, per_page, "list_tags")

SpecAirbender ==
    InitAirbenderAll /\ [][NextAirbender]_vars /\ WF_vars(NextAirbender)

\* list_tags alone, over every listing, page size, prefix and --max-tags.
InitTags ==
    \E prefix \in {"v", "v1.1"},
       mt \in {None} \cup {Some(n) : n \in 0..MaxMaxTags},
       l \in SeqsUpTo(TagNames, MaxItems),
       s \in 1..per_page :
        Start("airbender", AirbenderConfig(prefix, 1, mt), l, s, "list_tags")

NextTags == ListTagsSend \/ ListTagsRecv

SpecTags == InitTags /\ [][NextTags]_vars

(***************************************************************************)
(* The two Extractors alone, over a family of parsed documents.            *)
(***************************************************************************)
\* Most elements of an array, and members of an object, of a document.
MaxWidth == 2

\* Strings a leaf may hold: two of the hash shape and one too short.
Leaves == {JNum, JStr(Hex64("a")), JStr(Hex64("b")), JStr("0x1234")}

\* Strings around the hash shape: upper case digits, too short, too long, no
\* prefix (64 and 66 characters), a character that is no hex digit, "0X", a
\* leading space, the prefix alone, the empty string.
Hex64Digits(c) == SubSeq(Hex64(c), 3, 66)
ShapeStrings ==
    {Hex64("a"), Hex64("F"), Hex64("0"), "0x1234", Hex64("a") \o "a",
     Hex64Digits("1"), "00" \o Hex64Digits("1"), SubSeq(Hex64("a"), 1, 65) \o "g",
     "0xg" \o SubSeq(Hex64("a"), 4, 66), "0X" \o Hex64Digits("a"),
     " " \o Hex64("a"), "0x", ""}

\* The keys of the objects: the target keys of airbender_hashes and a bystander;
\* for prover_commits, keys that nest and a key that holds a '.'.
AirKeys == {"a", "bytecode_hash_hex", "params_hex"}
ProverKeys == {"a", "b", "a.b"}

Arrays(S) == {JArr(xs) : xs \in SeqsUpTo(S, MaxWidth)}
\* Members in every order a map may iterate them, no key twice.
Objects(K, S) ==
    {JObj(kv) : kv \in {m \in SeqsUpTo({KV(k, v) : k \in K, v \in S}, MaxWidth) :
                            \A i \in 1..Len(m), j \in 1..Len(m) : m[i].k = m[j].k => i = j}}
Level1(K) == Leaves \cup Arrays(Leaves) \cup Objects(K, Leaves)
Siblings(K) == {JStr(Hex64("b"))} \cup {JObj(<<KV(k, JStr(Hex64("a")))>>) : k \in K}
\* What stands beside a sibling: a leaf, or a leaf one level down.
Nested(K) ==
    Leaves \cup {JArr(<<x>>) : x \in Leaves} \cup {JObj(<<KV(k, x)>>) : k \in K, x \in Leaves}
Level2(K) ==
    {JObj(<<KV(k, n)>>) : k \in K, n \in Level1(K)}
        \cup {JArr(<<n>>) : n \in Level1(K)}
        \cup {JObj(<<KV(k1, s), KV(k2, n)>>) :
                  k1 \in K, k2 \in K, s \in Siblings(K), n \in Nested(K)}
        \cup {JObj(<<KV(k2, n), KV(k1, s)>>) :
                  k1 \in K, k2 \in K, s \in Siblings(K), n \in Nested(K)}
Distinct(v) == v.t = "obj" => \A i \in 1..Len(v.kv), j \in 1..Len(v.kv) :
                                  v.kv[i].k = v.kv[j].k => i = j
ShapeDocs ==
    {JObj(<<KV("a", JStr(s))>>) : s \in ShapeStrings}
        \cup {JArr(<<JStr(s), JStr(t)>>) : s \in ShapeStrings, t \in ShapeStrings}
AirDocs == {v \in Level1(AirKeys) \cup Level2(AirKeys) : Distinct(v)} \cup {DocBoth, DocNone}
ProverDocs ==
    {v \in Level1(ProverKeys) \cup Level2(ProverKeys) : Distinct(v)}
        \cup ShapeDocs \cup {DocNested, DocFlat, DocShort}

\* The candidate the Extractors are run for.
ExtractTag == "v1.0.0"
ExtractItem == AirItem("a.json", "file")
ExtractDir == "d"

\* fetch_and_extract from the parsed text on: find_string_by_key for each key.
KeyMatch ==
    /\ harvester = "airbender" /\ pc = "extract"
    /\ LET r == fetch_and_extract(cfg, ExtractTag, ExtractItem,
                                  [status |-> 200, text |-> Text(listing)])
       IN  /\ entries' = r.map
           /\ hist' = {Outcome("file", 1, ExtractTag \o "/" \o ExtractItem.name, 0,
                               IF r.ok THEN "Extracted" ELSE "ExtractFailed",
                               r.err, r.map)}
    /\ pc' = "extracted"
    /\ UNCHANGED <<harvester, cfg, listing, srv, page, out, reqs, served, enum, ti,
                   tasks, permits, agg, ids, chain_mapping, log, fetches, sublisting,
                   merged, output, exit>>

\* fetch_commitment_and_extract from the parsed text on: collect_hashes.
PatternMatch ==
    /\ harvester = "prover" /\ pc = "extract"
    /\ LET r == commitment_extract(cfg, ExtractDir,
                                   [status |-> 200, text |-> Text(listing)])
       IN  /\ entries' = r.map
           /\ hist' = {Outcome("dir", 1, ExtractDir, 200,
                               IF r.ok THEN "Extracted" ELSE "ExtractFailed",
                               r.err, r.map)}
    /\ pc' = "extracted"
    /\ UNCHANGED <<harvester, cfg, listing, srv, page, out, reqs, served, enum, ti,
                   tasks, permits, agg, ids, chain_mapping, log, fetches, sublisting,
                   merged, output, exit>>

InitExtract ==
    \/ \E doc \in AirDocs :
          Start("airbender", AirbenderConfig("v", 1, None), doc, per_page, "extract")
    \/ \E doc \in ProverDocs :
          Start("prover", ProverConfig(1), doc, per_page, "extract")

NextExtract == KeyMatch \/ PatternMatch

SpecExtract == InitExtract /\ [][NextExtract]_vars

(***************************************************************************)
(* Vocabulary of the properties, defined apart from the operators above.   *)
(***************************************************************************)
BeginsWith(t, p) == \E n \in 0..Len(t) : SubSeq(t, 1, n) = p
Matching(names, p) == SelectSeq(names, LAMBDA t : BeginsWith(t, p))
Take(v, n) == [i \in 1..Min(n, Len(v)) |-> v[i]]
CeilDiv(a, b) == (a + b - 1) \div b
Returned == enum \in {"ok", "empty"}
NoMax == cfg.max_tags = None
Process == harvester \in {"airbender", "prover"}
EnumerationOrWriteErrors ==
    {"Err: list_tags", "Err: No tags with prefix", "Err: list_subdirs",
     "Err: No subdirectories", "Err: getAllZKChainChainIDs", "Err: writing",
     "Err: reading file ../data/chains.json"}
Failed == {h \in hist : h.outcome \in {"FetchFailed", "ExtractFailed"} /\ h.sub # 404}
Contributions == UNION {DOMAIN h.contrib : h \in hist}

(***************************************************************************)
(* C1: with a concurrency limit N >= 1, at most N fetch+extract operations *)
(* are in flight at every instant, in every harvester that dispatches      *)
(* concurrently.                                                           *)
(***************************************************************************)
C1_AtMostNInFlight ==
    cfg.parallel >= 1 => Cardinality(InFlight) <= cfg.parallel

(***************************************************************************)
(* C2: when exactly one candidate out of many fails in its fetch (other    *)
(* than "not found") or in parsing, the run still completes (it reaches the *)
(* write) and the aggregate holds the entries of all the other candidates. *)
(***************************************************************************)
C2_Isolation ==
    (Process /\ pc = "exit" /\ enum = "ok" /\ Len(out) >= 2 /\ Cardinality(Failed) = 1)
        => /\ exit \in {"Ok", "Err: writing"}
           /\ DOMAIN agg = Contributions

(***************************************************************************)
(* C3: a run ends with a fatal error only when enumeration or the final    *)
(* write fails; no error of an individual candidate (sub-listing, content, *)
(* parsing, per-identifier or auxiliary on-chain call) reaches main's      *)
(* result.                                                                 *)
(***************************************************************************)
C3_OnlyEnumerationOrWriteFatal ==
    exit \notin {"running", "Ok"} => exit \in EnumerationOrWriteErrors

(***************************************************************************)
(* C4: with no maximum count, list_tags asks for exactly                   *)
(* ceil(totalItems / pageSize) + 1 pages, numbered 1, 2, ..., the last one *)
(* empty, and its out holds every listed name that passes the filter, in   *)
(* page order.  (pageSize is what the API serves: per_page, or less.)      *)
(***************************************************************************)
C4_PaginationTermination ==
    (Returned /\ NoMax)
        => /\ Len(reqs) = CeilDiv(Len(listing), srv) + 1
           /\ reqs = [i \in 1..Len(reqs) |-> i]
           /\ served[Len(served)] = <<>>
           /\ Concat(served) = listing
           /\ out = Matching(listing, cfg.tags_prefix)

C4_Witness ==
    /\ enum = "ok" /\ NoMax /\ srv = per_page
    /\ Len(listing) = 2 * per_page - 1
    /\ Len(reqs) = 3
    /\ Len(out) = Len(listing) - 1

(***************************************************************************)
(* C5: with no maximum count, list_tags stops only on an empty page: pages *)
(* are requested one at a time in increasing number, a non-empty page      *)
(* (short or full) is always followed by the next request, and nothing is  *)
(* requested after an empty page.                                          *)
(***************************************************************************)
C5_StopsOnlyOnEmptyPage ==
    NoMax
        => /\ reqs = [i \in 1..Len(reqs) |-> i]
           /\ Len(served) <= Len(reqs) /\ Len(reqs) <= Len(served) + 1
           /\ \A i \in 1..Len(served) : served[i] = <<>> => Len(reqs) = i
           /\ Returned => served[Len(served)] = <<>>
           /\ (pc = "list_tags" /\ Len(served) > 0) => served[Len(served)] # <<>>

C5_Witness ==
    /\ Returned /\ NoMax
    /\ \E i \in 1..Len(served) :
          /\ Len(served[i]) > 0 /\ Len(served[i]) < per_page
          /\ Len(reqs) > i /\ Len(served[i + 1]) > 0

(***************************************************************************)
(* C6: list_tags returns exactly the listed names that begin with the      *)
(* prefix, in listing order, and none that does not begin with it (with a  *)
(* maximum count, the first of them).                                      *)
(***************************************************************************)
C6_PrefixFilter ==
    enum = "ok"
        => /\ \A i \in 1..Len(out) : BeginsWith(out[i], cfg.tags_prefix)
           /\ out = Take(Matching(listing, cfg.tags_prefix), Len(out))
           /\ NoMax => out = Matching(listing, cfg.tags_prefix)

C6_Witness ==
    /\ enum = "ok" /\ NoMax /\ cfg.tags_prefix = "v"
    /\ listing = <<"v1.0.0", "v1.1.0", "beta1">>
    /\ out = <<"v1.0.0", "v1.1.0">>

(***************************************************************************)
(* C7: with a maximum count M, list_tags returns at most M names, the      *)
(* first M that pass the filter in page order (all of them when fewer),    *)
(* and requests no page once the filtered names of the pages received      *)
(* number M or more.                                                       *)
(***************************************************************************)
C7_MaxCount ==
    ~NoMax
        => LET M == cfg.max_tags[1]
           IN  /\ Returned =>
                     /\ Len(out) <= M
                     /\ out = Take(Matching(listing, cfg.tags_prefix), M)
               /\ \A i \in 2..Len(reqs) :
                     Len(Matching(Concat(SubSeq(served, 1, i - 1)), cfg.tags_prefix)) < M

C7_Witness ==
    /\ enum = "ok" /\ cfg.max_tags = <<2>>
    /\ Len(Matching(listing, cfg.tags_prefix)) > 2
    /\ Len(out) = 2
    /\ Len(reqs) < CeilDiv(Len(listing), srv)

(***************************************************************************)
(* C8: enumeration fails with the empty-result error exactly when no       *)
(* candidate remains after filtering (an empty page alone is no error),    *)
(* and when enumeration fails the run aborts before any candidate is       *)
(* fetched and writes no output.                                           *)
(***************************************************************************)
C8_EmptyResultError ==
    /\ (harvester = "airbender" /\ Returned)
          => (enum = "empty" <=>
                 Len(Take(Matching(listing, cfg.tags_prefix),
                          IF NoMax THEN Len(listing) ELSE cfg.max_tags[1])) = 0)
    /\ (harvester = "prover" /\ Returned)
          => (enum = "empty" <=>
                 ~\E i \in 1..Len(served[1]) : served[1][i].kind = "dir")
    /\ (Process /\ enum \in {"empty", "transport"})
          => /\ pc = "exit" /\ exit \in EnumerationOrWriteErrors
             /\ fetches = 0 /\ tasks = <<>> /\ hist = {} /\ output = None
    /\ (Process /\ enum = "none") => (fetches = 0 /\ output = None)

C8_Witness ==
    /\ harvester = "airbender" /\ enum = "empty" /\ Len(listing) > 0
    /\ exit = "Err: No tags with prefix" /\ fetches = 0 /\ output = None

(***************************************************************************)
(* C9: a sub-listing call answered "not found" for a candidate is absence, *)
(* not an error: the candidate raises no error and contributes nothing,    *)
(* and the run goes on, in both repository harvesters.                     *)
(***************************************************************************)
C9_AbsenceIsNotError ==
    \A h \in hist :
        (Process /\ h.sub = 404)
            => /\ h.err = ""
               /\ h.contrib = EmptyMap
               /\ exit \in {"running", "Ok", "Err: writing"}

(***************************************************************************)
(* C10: the keys of the items written appear in strictly ascending         *)
(* lexicographic (byte) order, none repeated, in the three harvesters.     *)
(***************************************************************************)
C10_SortInvariant ==
    is_some(output)
        => LET items == output[1].items
           IN  /\ \A i \in 1..(Len(items) - 1) :
                     lex_cmp(items[i].key, items[i + 1].key) < 0
               /\ {items[i].key : i \in 1..Len(items)} = DOMAIN agg

C10_Witness ==
    /\ is_some(output) /\ harvester = "prover"
    /\ Len(output[1].items) >= 3
    /\ Cardinality({h \in hist : h.contrib # EmptyMap}) >= 2

(***************************************************************************)
(* C11: two runs against the same upstream state write the same items,     *)
(* whatever the order in which the candidates complete.  hist holds what   *)
(* upstream gave each candidate and every completion order is a run, so    *)
(* the items are the same in all of them exactly when each key written     *)
(* holds the entry that every candidate contributing that key gave it.     *)
(***************************************************************************)
C11_IdempotentItems ==
    (Process /\ is_some(output))
        => LET items == output[1].items
           IN  /\ {items[i].key : i \in 1..Len(items)} = Contributions
               /\ \A i \in 1..Len(items) : \A h \in hist :
                     items[i].key \in DOMAIN h.contrib
                         => items[i].item = h.contrib[items[i].key]

(***************************************************************************)
(* C12: when two maps extended into the global map share a key, the global *)
(* map (and the items written from it) holds for that key the entry of the *)
(* map merged later; every other key keeps the entry of the last map that  *)
(* held it, and no key is lost.                                            *)
(***************************************************************************)
MergedKeys == UNION {DOMAIN merged[j] : j \in 1..Len(merged)}
LastMerged(k) ==
    LET j == CHOOSE n \in 1..Len(merged) :
                 /\ k \in DOMAIN merged[n]
                 /\ \A m \in (n + 1)..Len(merged) : k \notin DOMAIN merged[m]
    IN  merged[j][k]

C12_LastWriteWins ==
    /\ DOMAIN agg = MergedKeys
    /\ \A k \in DOMAIN agg : agg[k] = LastMerged(k)
    /\ is_some(output)
          => LET items == output[1].items
             IN  /\ {items[i].key : i \in 1..Len(items)} = MergedKeys
                 /\ \A i \in 1..Len(items) : items[i].item = LastMerged(items[i].key)

C12_Witness ==
    /\ is_some(output) /\ exit = "Ok"
    /\ \E j1 \in 1..Len(merged), j2 \in 1..Len(merged) :
          /\ j1 < j2
          /\ \E k \in DOMAIN merged[j1] \cap DOMAIN merged[j2] :
                /\ merged[j1][k] # merged[j2][k]
                /\ agg[k] = merged[j2][k]
          /\ \E k \in DOMAIN merged[j1] \ DOMAIN merged[j2] : agg[k] = merged[j1][k]

(***************************************************************************)
(* C13: the dispatcher finishes only after every candidate has reached a   *)
(* terminal state: nothing is sorted, wrapped or written while a candidate *)
(* is pending, fetching or extracting; and once every request has been     *)
(* answered every candidate has reached a terminal state and the output    *)
(* is written.  The second half is stated of the run's last state: a run   *)
(* that has ended after a successful enumeration has taken every candidate *)
(* to a terminal state and has got to the write.                           *)
(***************************************************************************)
AllTerminal ==
    /\ \A i \in DOMAIN tasks : tasks[i].st = "collected"
    /\ \A i \in 1..Len(out) : \E h \in hist : h.i = i
    /\ harvester = "airbender" => ti > Len(out)

C13_NothingWrittenWhilePending ==
    (Process /\ (pc = "finish" \/ is_some(output))) => AllTerminal

C13_DispatcherCompletes ==
    /\ C13_NothingWrittenWhilePending
    /\ (Process /\ enum = "ok" /\ pc = "exit")
          => (AllTerminal /\ exit \in {"Ok", "Err: writing"})

(***************************************************************************)
(* C14: a candidate moves only along Pending -> Fetching -> {Fetched,      *)
(* Absent, FetchFailed} and Fetched -> Extracting -> {Extracted,           *)
(* ExtractFailed}.  A task is Pending while "spawned", Fetching while      *)
(* "listing" or "fetching", and at its terminal outcome once "done" (the   *)
(* parse and the extraction follow the response without an await);         *)
(* "collected" is the dispatcher having merged it.  A candidate that ends  *)
(* Absent, FetchFailed or ExtractFailed contributes nothing, only          *)
(* Extracted candidates contribute, and each candidate ends and            *)
(* contributes once.                                                       *)
(***************************************************************************)
CandidateMoves ==
    {<<"spawned", "listing">>, <<"spawned", "fetching">>, <<"listing", "fetching">>,
     <<"listing", "done">>, <<"fetching", "done">>, <<"done", "collected">>}
Extracted == {h \in hist : h.outcome = "Extracted"}
Terminal == {"Extracted", "ExtractFailed", "FetchFailed", "Absent", "Empty"}

C14_Outcomes ==
    Process
        => /\ \A h \in hist :
                 /\ h.outcome \in Terminal
                 /\ h.outcome # "Extracted" => h.contrib = EmptyMap
           /\ \A g \in hist, h \in hist :
                 (g.unit = h.unit /\ g.id = h.id /\ (harvester = "airbender" => g.i = h.i))
                     => g = h
           /\ \A i \in DOMAIN tasks :
                 tasks[i].st \in {"done", "collected"} <=> is_some(tasks[i].res)
           /\ MergedKeys \subseteq UNION {DOMAIN h.contrib : h \in Extracted}
           /\ harvester = "prover"
                 => /\ \A j \in 1..Len(merged) : \E h \in Extracted : merged[j] = h.contrib
                    /\ Len(merged) <= Cardinality({h \in Extracted : h.contrib # EmptyMap})
           /\ harvester = "airbender"
                 => Len(merged) <= Cardinality({h.i : h \in Extracted})

C14_CandidateStateMachine ==
    /\ []C14_Outcomes
    /\ [][\A i \in DOMAIN tasks \cap DOMAIN tasks' :
              tasks[i].st # tasks'[i].st
                  => <<tasks[i].st, tasks'[i].st>> \in CandidateMoves]_vars

C14_Witness ==
    /\ harvester = "prover" /\ pc = "finish"
    /\ \E g \in hist, h \in hist :
          /\ g.outcome = "Extracted" /\ g.contrib # EmptyMap
          /\ h.outcome \in {"FetchFailed", "ExtractFailed"}
    /\ Len(merged) = 1

(***************************************************************************)
(* C15: the list the Enumerator returns is deduplicated: whatever the      *)
(* pages hold, also when a page repeats a name an earlier page gave, no    *)
(* name is twice in the list list_tags (or list_subdirs) returns.          *)
(***************************************************************************)
C15_NoDuplicateCandidates ==
    Returned => \A i \in 1..Len(out), j \in 1..Len(out) : out[i] = out[j] => i = j

(***************************************************************************)
(* Vocabulary of the extraction properties.                                *)
(***************************************************************************)
Range(s) == {s[i] : i \in 1..Len(s)}
HasSuffix(t, p) == \E n \in 0..Len(t) : SubSeq(t, n + 1, Len(t)) = p /\ Len(t) - n = Len(p)

\* The strings some object node of v holds under key, at any depth.
RECURSIVE StringsUnder(_, _)
StringsUnder(v, key) ==
    IF v.t = "obj"
    THEN UNION {(IF m.k = key /\ m.v.t = "str" THEN {m.v.s} ELSE {})
                    \cup StringsUnder(m.v, key) : m \in Range(v.kv)}
    ELSE IF v.t = "arr" THEN UNION {StringsUnder(x, key) : x \in Range(v.xs)}
    ELSE {}

\* How many object members of v hold a string under key, at any depth.
RECURSIVE Sum(_)
Sum(ns) == IF Len(ns) = 0 THEN 0 ELSE Head(ns) + Sum(Tail(ns))
RECURSIVE Occurrences(_, _)
Occurrences(v, key) ==
    IF v.t = "obj"
    THEN Sum([i \in 1..Len(v.kv) |->
                 (IF v.kv[i].k = key /\ v.kv[i].v.t = "str" THEN 1 ELSE 0)
                     + Occurrences(v.kv[i].v, key)])
    ELSE IF v.t = "arr" THEN Sum([i \in 1..Len(v.xs) |-> Occurrences(v.xs[i], key)])
    ELSE 0

Targets == {"bytecode_hash_hex", "params_hex"}
EntryName(target) == IF target = "bytecode_hash_hex" THEN "bytecode" ELSE "params"
EntriesFor(target) == {k \in DOMAIN entries : HasSuffix(k, "/" \o EntryName(target))}
KeyMatched == harvester = "airbender" /\ pc = "extracted"
PatternMatched == harvester = "prover" /\ pc = "extracted"

(***************************************************************************)
(* C16: key-match extraction over a parsed tree.  For each target key: if  *)
(* some object node, at any depth and also inside arrays, holds a string   *)
(* under it, the result has an entry for that key whose value is such a    *)
(* string; if none does, there is no entry for it, and no error.           *)
(***************************************************************************)
C16_KeyMatchExtraction ==
    KeyMatched
        => /\ \A h \in hist : h.outcome = "Extracted" /\ h.err = ""
           /\ DOMAIN entries = UNION {EntriesFor(t) : t \in Targets}
           /\ \A t \in Targets :
                 IF StringsUnder(listing, t) = {}
                 THEN EntriesFor(t) = {}
                 ELSE /\ EntriesFor(t) # {}
                      /\ \A k \in EntriesFor(t) :
                            entries[k].value \in StringsUnder(listing, t)

C16_Witness ==
    /\ KeyMatched /\ listing = DocBoth
    /\ {entries[k].value : k \in EntriesFor("bytecode_hash_hex")} = {Hex64("a")}
    /\ {entries[k].value : k \in EntriesFor("params_hex")} = {Hex64("b")}

(***************************************************************************)
(* C17: key-match extraction records every occurrence of a target key:     *)
(* when several object nodes of one blob hold a string under the same      *)
(* target key, the search goes on after a match and each occurrence gets   *)
(* an entry of its own, so the result holds as many entries for the key    *)
(* as the blob has occurrences of it, with their values.                   *)
(***************************************************************************)
C17_EveryOccurrenceRecorded ==
    KeyMatched
        => \A t \in Targets :
              /\ Cardinality(EntriesFor(t)) = Occurrences(listing, t)
              /\ {entries[k].value : k \in EntriesFor(t)} = StringsUnder(listing, t)

(***************************************************************************)
(* Vocabulary of pattern-match extraction: the leaves of a tree with the   *)
(* steps that lead to them, the hash shape, the rendering of a path.       *)
(***************************************************************************)
KeyStep(k) == [key |-> k]
IndexStep(i) == [index |-> i]

\* <<steps, string>> for every string leaf of v, steps being those from the root.
RECURSIVE StringLeaves(_, _)
StringLeaves(v, steps) ==
    IF v.t = "str" THEN {<<steps, v.s>>}
    ELSE IF v.t = "obj"
    THEN UNION {StringLeaves(v.kv[i].v, Append(steps, KeyStep(v.kv[i].k))) :
                    i \in 1..Len(v.kv)}
    ELSE IF v.t = "arr"
    THEN UNION {StringLeaves(v.xs[i], Append(steps, IndexStep(i - 1))) : i \in 1..Len(v.xs)}
    ELSE {}

HexChars == Range(<<"0", "1", "2", "3", "4", "5", "6", "7", "8", "9", "a", "b", "c",
                    "d", "e", "f", "A", "B", "C", "D", "E", "F">>)
\* '0x', then 64 hexadecimal characters, then nothing.
HashShape(s) ==
    \E body \in {SubSeq(s, 3, Len(s))} :
        /\ s = "0x" \o body
        /\ Len(body) = 64
        /\ \A i \in 1..Len(body) : SubSeq(body, i, i) \in HexChars

\* Object keys joined by '.', array elements as name[index], under the root name.
RECURSIVE StructuralPath(_, _)
StructuralPath(root, steps) ==
    IF Len(steps) = 0 THEN root
    ELSE LET step == Head(steps)
         IN  StructuralPath(
                 IF "key" \in DOMAIN step
                 THEN (IF root = "" THEN step.key ELSE root \o "." \o step.key)
                 ELSE root \o "[" \o SubSeq("0123456789", step.index + 1, step.index + 1)
                          \o "]",
                 Tail(steps))

MatchingLeaves == {l \in StringLeaves(listing, <<>>) : HashShape(l[2])}

(***************************************************************************)
(* C18: pattern-match extraction records every matching leaf: each string  *)
(* leaf of the hash shape, anywhere in the tree, has an entry under its    *)
(* structural path whose value is the leaf's string; there are as many     *)
(* entries as matching leaves, and no entry for any other leaf.            *)
(***************************************************************************)
C18_EveryMatchingLeafRecorded ==
    PatternMatched
        => /\ \A l \in MatchingLeaves :
                 LET k == StructuralPath(ExtractDir, l[1])
                 IN  k \in DOMAIN entries /\ entries[k].value = l[2]
           /\ Cardinality(DOMAIN entries) = Cardinality(MatchingLeaves)
           /\ \A k \in DOMAIN entries :
                 \E l \in MatchingLeaves : k = StructuralPath(ExtractDir, l[1])

(***************************************************************************)
(* C19: the hash-shape predicate accepts a string exactly when it is '0x'  *)
(* followed by exactly 64 hexadecimal characters and nothing else: every   *)
(* leaf of that shape is matched (its path is recorded), and a string that *)
(* is too short, too long, without the prefix or with a character that is  *)
(* no hex digit is never matched and never recorded.                       *)
(***************************************************************************)
C19_HashShape ==
    PatternMatched
        => /\ \A l \in StringLeaves(listing, <<>>) :
                 HashShape(l[2]) => StructuralPath(ExtractDir, l[1]) \in DOMAIN entries
           /\ \A k \in DOMAIN entries :
                 /\ HashShape(entries[k].value)
                 /\ \E l \in StringLeaves(listing, <<>>) :
                       k = StructuralPath(ExtractDir, l[1]) /\ entries[k].value = l[2]
           /\ \A s \in ShapeStrings : HASH_RE_is_match(s) <=> HashShape(s)

C19_Witness ==
    /\ PatternMatched
    /\ listing = JArr(<<JStr(Hex64("a") \o "a"), JStr(Hex64("F"))>>)
    /\ DOMAIN entries = {"d[1]"}

(***************************************************************************)
(* C20: in airbender_hashes a content request is issued only for the items *)
(* of the tag's contents listing that are files whose name ends in         *)
(* '.json': the tasks spawned for a tag are those items, in order; a       *)
(* directory or a file with another suffix gets no task, no request and    *)
(* no entry.                                                               *)
(***************************************************************************)
JsonFile(item) == item.kind = "file" /\ HasSuffix(item.name, ".json")
JsonFiles == SelectSeq(sublisting, JsonFile)
Requested == {tasks[i].item : i \in {j \in DOMAIN tasks : tasks[j].st # "spawned"}}

C20_OnlyJsonFilesFetched ==
    harvester = "airbender"
        => /\ tasks # <<>> => [i \in DOMAIN tasks |-> tasks[i].item] = JsonFiles
           /\ Requested \subseteq Range(JsonFiles)
           /\ \A k \in DOMAIN entries :
                 \E item \in Range(JsonFiles) :
                    BeginsWith(k, out[ti] \o "/" \o item.name \o "/")
           /\ \A h \in hist :
                 (h.unit = "file" /\ h.i = ti)
                     => \E item \in Range(JsonFiles) : h.id = out[ti] \o "/" \o item.name

C20_Witness ==
    /\ harvester = "airbender" /\ pc = "collect"
    /\ \E i \in 1..Len(sublisting) : sublisting[i].kind = "dir"
    /\ \E i \in 1..Len(sublisting) : JsonFile(sublisting[i])
    /\ Len(tasks) = 1 /\ tasks[1].st = "done"
    /\ \E h \in hist : h.outcome = "Extracted" /\ h.contrib # EmptyMap


(***************************************************************************)
(* C21: in the prover-commits harvester a subdirectory whose listing       *)
(* succeeds but holds no file named commitments.json ends as a successful  *)
(* empty candidate: no raw content request is issued for it, it            *)
(* contributes no entry, and no error or warning is produced for it.       *)
(***************************************************************************)
CommitmentFiles(items) ==
    {x \in Range(items) : x.kind = "file" /\ x.name = "commitments.json"}

\* Tasks whose listing arrived with status 200 and without the file.
ListedWithoutCommitments ==
    {i \in DOMAIN tasks :
        is_some(tasks[i].listed) /\ CommitmentFiles(unwrap(tasks[i].listed)) = {}}
ListedWithCommitments ==
    {i \in DOMAIN tasks :
        is_some(tasks[i].listed) /\ CommitmentFiles(unwrap(tasks[i].listed)) # {}}

C21_NoCommitmentsIsEmptySuccess ==
    harvester = "prover" =>
        /\ \A i \in ListedWithoutCommitments :
              /\ tasks[i].st \in {"done", "collected"}
              /\ tasks[i].res = Some(Ok(EmptyMap))
              /\ \A h \in hist : h.i = i =>
                     h.outcome = "Empty" /\ h.err = "" /\ h.contrib = EmptyMap
              /\ \E h \in hist : h.i = i
              /\ \A w \in log : w.who # tasks[i].item
           \* one listing request per started task, one raw request per listing
           \* that holds the file, and none besides
        /\ fetches = Cardinality({i \in DOMAIN tasks : tasks[i].st # "spawned"})
                          + Cardinality(ListedWithCommitments)

\* A directory holding only a directory called commitments.json was collected,
\* next to one whose commitments.json was fetched; nothing was warned about.
C21_Witness ==
    /\ harvester = "prover" /\ pc = "finish"
    /\ \E i \in ListedWithoutCommitments :
          /\ tasks[i].st = "collected"
          /\ unwrap(tasks[i].listed) = <<GhDir("commitments.json")>>
    /\ ListedWithCommitments # {}
    /\ log = {}


(***************************************************************************)
(* C22: in the on-chain harvester a failed getZKChain lookup of one chain  *)
(* id is logged and skipped: every other id of the ecosystem whose lookup  *)
(* succeeds still gets its DiamondProxy entry, the ecosystem's Bridgehub,  *)
(* SharedBridge, Admin and AssetRouter entries are still produced, and the *)
(* remaining ecosystems are still processed.                               *)
(***************************************************************************)
AllChainIds == UNION {Range(l) : l \in ChainIdLists}

\* The chain ids of ecosystem j whose lookup ended with the given outcome.
LookedUp(j, outcome) ==
    {id \in AllChainIds :
        \E h \in hist : /\ h.unit = "chain" /\ h.i = j /\ h.outcome = outcome
                        /\ h.id = configs[j].name \o "/" \o id}

DiamondKey(j, id) ==
    configs[j].name \o " DiamondProxy - " \o id \o " "
        \o (IF id \in DOMAIN chain_mapping THEN chain_mapping[id] ELSE "chain_" \o id)

FixedKeys(j, labels) == {configs[j].name \o " " \o l : l \in labels}

\* The lookups of the current ecosystem are all answered.
LookupsOver == pc \in {"eco_shared", "eco_admin", "eco_router"}

C22_FailedLookupIsSkipped ==
    harvester = "contracts" =>
        \* logged
        /\ \A j \in 1..Len(configs) : \A id \in LookedUp(j, "FetchFailed") :
               \E w \in log : w.who = "getZKChain(" \o id \o ")"
        \* skipped: the run never ends while ids are still to be looked up
        /\ pc = "exit" => ids.next > Len(ids.chain_ids)
        /\ pc = "eco_chain" => ids.next <= Len(ids.chain_ids)
        \* what the ecosystem has built once its lookups are over
        /\ LookupsOver =>
               /\ {DiamondKey(ti, id) : id \in LookedUp(ti, "Extracted")}
                      \cup FixedKeys(ti, {"Bridgehub"}) \subseteq DOMAIN entries
               /\ LookedUp(ti, "Extracted") \cup LookedUp(ti, "FetchFailed")
                      = Range(ids.chain_ids)
        \* what each ecosystem has contributed once it returned
        /\ \A j \in 1..Len(merged) :
               /\ DOMAIN merged[j] =
                      {DiamondKey(j, id) : id \in LookedUp(j, "Extracted")}
                          \cup FixedKeys(j, {"Bridgehub", "SharedBridge", "Admin",
                                             "AssetRouter"})
               /\ \A id \in LookedUp(j, "Extracted") :
                      merged[j][DiamondKey(j, id)].value = lower_hex(ZKChainOf(id))
               /\ \A k \in DOMAIN merged[j] : k \in DOMAIN agg /\ agg[k] = merged[j][k]
        \* the remaining ecosystems
        /\ pc = "finish" => Len(merged) = Len(configs)
        /\ Len(merged) = (IF ti = 0 THEN 0 ELSE ti - 1)

\* The first ecosystem lost the lookup of 324 and kept 325; both ecosystems
\* returned and the output was written.
C22_Witness ==
    /\ harvester = "contracts" /\ exit = "Ok" /\ is_some(output)
    /\ "324" \in LookedUp(1, "FetchFailed")
    /\ "325" \in LookedUp(1, "Extracted")
    /\ Len(merged) = Len(configs)
    /\ DiamondKey(1, "325") \in DOMAIN agg
    /\ DiamondKey(1, "324") \notin DOMAIN agg
    /\ FixedKeys(1, {"Bridgehub", "SharedBridge", "Admin", "AssetRouter"})
           \subseteq DOMAIN agg


(***************************************************************************)
(* C23: in the airbender harvester tags are processed strictly one after   *)
(* another in enumeration order: the sub-listing and every file fetch of   *)
(* tag k have completed before the sub-listing of tag k+1 is requested, so *)
(* the requests in flight at any instant belong to a single tag, and the   *)
(* contributions of different tags are merged in enumeration order.        *)
(***************************************************************************)
\* The sub-listing request of the current tag is in flight.
ListingInFlight == pc = "files_wait"

\* The tags (by index) a merged map may come from: those its keys begin with.
TagsOf(m) ==
    {k \in 1..Len(out) : \A key \in DOMAIN m : BeginsWith(key, out[k] \o "/")}

\* Tag k is over: its sub-listing ended it, or its files have outcomes.
TagOver(k) == \E h \in hist : h.i = k /\ h.unit \in {"tag", "file"}

C23_TagsStrictlySequential ==
    (harvester = "airbender" /\ enum = "ok") =>
        \* nothing of another tag is in flight beside a sub-listing
        /\ ListingInFlight => (tasks = <<>> /\ entries = EmptyMap)
        \* the tasks are those of the current tag, named by its listing
        /\ tasks # <<>> =>
               /\ pc = "collect"
               /\ \A i \in DOMAIN tasks : tasks[i].item \in Range(sublisting)
        \* every earlier tag is over, no later one has begun
        /\ \A k \in 1..Len(out) : k < ti => TagOver(k)
        /\ \A h \in hist : h.i <= ti /\ (h.unit = "file" /\ h.i = ti => tasks # <<>>)
        /\ (pc \in {"for_tag", "files_wait"}) => \A h \in hist : h.i < ti
        \* merges follow the enumeration order
        /\ \E f \in [1..Len(merged) -> 1..Len(out)] :
               /\ \A j \in 1..Len(merged) : f[j] \in TagsOf(merged[j]) /\ f[j] < ti
               /\ \A j1, j2 \in 1..Len(merged) : j1 < j2 => f[j1] < f[j2]

\* Two different tags were merged one after the other, the first of them with a
\* file that failed, and the run is about to write.
C23_Witness ==
    /\ harvester = "airbender" /\ pc = "finish"
    /\ Len(out) = 2 /\ out[1] # out[2]
    /\ Len(merged) = 2
    /\ TagsOf(merged[1]) = {1} /\ TagsOf(merged[2]) = {2}
    /\ \E h \in hist : h.unit = "file" /\ h.i = 1 /\ h.outcome = "FetchFailed"


(***************************************************************************)
(* C24: in the airbender harvester a configured concurrency limit of 0     *)
(* behaves as a limit of 1: the semaphore always has at least one permit   *)
(* (free or held by a running task), so every spawned file task eventually *)
(* acquires a permit, given that running tasks finish, and the run cannot  *)
(* deadlock waiting for a slot.                                            *)
(***************************************************************************)
Waiting(i) == i \in DOMAIN tasks /\ tasks[i].st = "spawned"
Holding(i) == i \in DOMAIN tasks /\ tasks[i].st = "fetching"
Holders == {i \in DOMAIN tasks : Holding(i)}

\* The limit in force: 1 for a configured 0.
Limit == IF cfg.parallel = 0 THEN 1 ELSE cfg.parallel

C24_PermitAccounting ==
    (harvester = "airbender" /\ enum = "ok") =>
        /\ permits >= 0
        /\ permits + Cardinality(Holders) = Limit
        /\ Cardinality(Holders) <= Limit
        \* a task waits only behind a running one
        /\ (\E i \in DOMAIN tasks : Waiting(i)) => (permits >= 1 \/ Holders # {})
        \* no halt with a task left waiting
        /\ pc = "exit" => tasks = <<>>

\* A task stops waiting only by acquiring a permit.
C24_LeavesByAcquiring ==
    \A i \in 1..MaxLs : (Waiting(i) /\ ~Waiting(i)') => Holding(i)'

\* Whenever tasks wait, a moment comes when none of them waits any more: with
\* C24_LeavesByAcquiring, each of them has acquired a permit by then.
C24_ZeroBehavesAsOne ==
    /\ []C24_PermitAccounting
    /\ [][C24_LeavesByAcquiring]_vars
    /\ (\E i \in 1..MaxLs : Waiting(i)) ~> (\A i \in 1..MaxLs : ~Waiting(i))

\* With --parallel 0 one task holds the only permit while the other waits.
C24_Witness ==
    /\ harvester = "airbender" /\ cfg.parallel = 0
    /\ permits = 0
    /\ \E i, j \in DOMAIN tasks : Holding(i) /\ Waiting(j)


(***************************************************************************)
(* C25: in the airbender harvester two different (tag, file) candidates    *)
(* never contribute the same key: every key is <tag>/<file name>/bytecode  *)
(* or <tag>/<file name>/params, each file contributes at most one entry of *)
(* each kind, and so, provided the enumerated tags are distinct, merging   *)
(* never discards an entry and the final items map is the disjoint union   *)
(* of all contributions.                                                   *)
(***************************************************************************)
FileOutcomes == {h \in hist : h.unit = "file"}
TagsDistinct == \A i, j \in 1..Len(out) : out[i] = out[j] => i = j
KeysOfKind(m, kind) == {k \in DOMAIN m : HasSuffix(k, "/" \o kind)}

\* The candidate of an outcome: its tag and the name of its file.
CandidateIs(h, tag, name) == h.id = tag \o "/" \o name

C25_KeysNeverCollide ==
    (harvester = "airbender" /\ enum = "ok") =>
        /\ \A h \in FileOutcomes :
              /\ \E name \in {x.name : x \in Range(AirItemPool)} :
                     /\ CandidateIs(h, out[h.i], name)
                     /\ DOMAIN h.contrib \subseteq
                            {out[h.i] \o "/" \o name \o "/bytecode",
                             out[h.i] \o "/" \o name \o "/params"}
              /\ Cardinality(KeysOfKind(h.contrib, "bytecode")) <= 1
              /\ Cardinality(KeysOfKind(h.contrib, "params")) <= 1
        /\ TagsDistinct =>
              /\ \A g, h \in FileOutcomes :
                     g # h => DOMAIN g.contrib \cap DOMAIN h.contrib = {}
              /\ \A j1, j2 \in 1..Len(merged) :
                     j1 # j2 => DOMAIN merged[j1] \cap DOMAIN merged[j2] = {}
              /\ DOMAIN agg = MergedKeys
              /\ \A j \in 1..Len(merged) : \A k \in DOMAIN merged[j] :
                     agg[k] = merged[j][k]
              /\ (pc = "finish" \/ is_some(output)) =>
                     /\ DOMAIN agg = Contributions
                     /\ \A h \in FileOutcomes : \A k \in DOMAIN h.contrib :
                            agg[k] = h.contrib[k]
              /\ is_some(output) =>
                     Len(unwrap(output).items) = Cardinality(Contributions)

\* Two distinct tags each held a.json and b.json, every file gave both kinds, and
\* the eight entries were written.
C25_Witness ==
    /\ harvester = "airbender" /\ is_some(output)
    /\ TagsDistinct /\ Len(out) = 2
    /\ \E g, h \in FileOutcomes :
           /\ g.i = 1 /\ h.i = 2
           /\ CandidateIs(g, out[1], "a.json") /\ CandidateIs(h, out[2], "a.json")
           /\ Cardinality(DOMAIN g.contrib) = 2 /\ Cardinality(DOMAIN h.contrib) = 2
    /\ Len(unwrap(output).items) = 8

=============================================================================
